---- MODULE Spec2Model ----
(***************************************************************************)
(* FileStream (native-engine/datafusion-ext/src/file_format/               *)
(* file_stream.rs): a stream that iterates record batch by record batch,   *)
(* file over file.  One action, poll_next, is one call of                  *)
(* Stream::poll_next and runs the whole loop of poll_inner.  The opener    *)
(* (FormatReader::open), the futures it returns and the sub-streams they   *)
(* resolve to are the environment: what each of them answers when it is    *)
(* polled is chosen nondeterministically at the moment it is polled.       *)
(***************************************************************************)
EXTENDS Integers, Sequences, FiniteSets, TLC

\* Bounds of the model.
MaxFiles == 3       \* files in the file group
MaxBatches == 2     \* items (batches or errors) all sub-streams yield in total
MaxRows == 2        \* rows of one batch a sub-stream yields
MaxLimit == 3       \* largest config.limit
MaxEndPolls == 2    \* polls made that return end-of-sequence

\* Partition values of a file: a Vec<ScalarValue>, never empty here, so that
\* the empty vector std::mem::take leaves behind can be told apart.
PartVals == {<<"a">>, <<"b">>}
EmptyVec == <<>>

\* Option<usize>
None == [some |-> FALSE, v |-> 0]
Some(n) == [some |-> TRUE, v |-> n]

\* PartitionedFile: object_meta is the file's position in the file group.
PartitionedFile(i, pv) == [object_meta |-> i, partition_values |-> pv]

FileGroups ==
  UNION { { [i \in 1..n |-> PartitionedFile(i, pvs[i])] : pvs \in [1..n -> PartVals] }
          : n \in 0..MaxFiles }

Limits == {None} \cup { Some(n) : n \in 0..MaxLimit }

\* RecordBatch: src names the file and the position in its sub-stream the
\* batch came from, [off, off+len) is the row range of that batch it holds,
\* good says whether the projector accepts it, part is the partition
\* columns' value (EmptyVec before projection).
RecordBatch(f, k, n, g) ==
  [src |-> <<f, k>>, off |-> 0, len |-> n, good |-> g, part |-> EmptyVec]

NoBatch == RecordBatch(0, 0, 0, TRUE)

num_rows(b) == b.len

\* slice with its arguments taken the other way round.
slice_swapped(b, offset, length) == [b EXCEPT !.off = b.off + length, !.len = offset]

\* RecordBatch::slice(offset, length): zero-copy, same buffers.
slice(b, offset, length) == [b EXCEPT !.off = b.off + offset, !.len = length]

\* ArrowResult<RecordBatch>
Ok(b) == [kind |-> "batch", cause |-> "", b |-> b]
Err(c, f) == [kind |-> "err", cause |-> c, b |-> [NoBatch EXCEPT !.src = <<f, 0>>]]

\* Poll<Option<ArrowResult<RecordBatch>>>
PollPending == [kind |-> "pending", cause |-> "", b |-> NoBatch]
PollEnd == [kind |-> "end", cause |-> "", b |-> NoBatch]

\* PartitionColumnProjector::project(batch, partition_values)
project(b, partition_values) ==
  IF b.good THEN Ok([b EXCEPT !.part = partition_values])
  ELSE Err("project", b.src[1])

\* FileStreamState
Idle == [tag |-> "Idle", file |-> 0, partition_values |-> EmptyVec, pos |-> 0]
Open(f, pv) == [tag |-> "Open", file |-> f, partition_values |-> pv, pos |-> 0]
Scan(f, pv, k) == [tag |-> "Scan", file |-> f, partition_values |-> pv, pos |-> k]
Error == [tag |-> "Error", file |-> 0, partition_values |-> EmptyVec, pos |-> 0]
Limit == [tag |-> "Limit", file |-> 0, partition_values |-> EmptyVec, pos |-> 0]

VARIABLES
  files,      \* config.file_groups[partition]
  limit,      \* config.limit
  file_iter,  \* FileStream.file_iter
  remain,     \* FileStream.remain
  state,      \* FileStream.state
  out,        \* every element the polls returned so far, in order
  yielded,    \* per file, the items its sub-stream yielded so far
  opened,     \* the files FormatReader::open was called with, in order
  ended,      \* the files whose sub-stream returned None
  last,       \* what the last poll did
  endPolls    \* polls that returned end-of-sequence

vars == <<files, limit, file_iter, remain, state, out, yielded, opened, ended, last, endPolls>>

\* The poll statistics: the result and the collaborator calls of one poll.
NoPoll == [ret |-> "init", opens |-> 0, futPolls |-> 0, readerPolls |-> 0, iters |-> 0, qlen |-> 0]


\* The FileStream fields a poll reads and writes, with the record of the
\* collaborator calls made (yielded, opened, ended, st).
Self ==
  [file_iter |-> file_iter, remain |-> remain, state |-> state,
   yielded |-> yielded, opened |-> opened, ended |-> ended,
   st |-> [NoPoll EXCEPT !.qlen = Len(file_iter)]]

Return(m, r) == [m |-> [m EXCEPT !.st.ret = r.kind], ret |-> r]

\* pop_front taking the back of the queue instead.
pop_back(q) ==
  IF q = <<>> THEN [some |-> FALSE, v |-> PartitionedFile(0, EmptyVec), rest |-> q]
  ELSE [some |-> TRUE, v |-> q[Len(q)], rest |-> SubSeq(q, 1, Len(q) - 1)]

\* pop_front advancing the queue by two files for the one it returns.
pop_front_drop_two(q) ==
  IF q = <<>> THEN [some |-> FALSE, v |-> PartitionedFile(0, EmptyVec), rest |-> q]
  ELSE [some |-> TRUE, v |-> Head(q),
        rest |-> IF Len(q) >= 2 THEN Tail(Tail(q)) ELSE <<>>]

\* VecDeque::pop_front
pop_front(q) ==
  IF q = <<>> THEN [some |-> FALSE, v |-> PartitionedFile(0, EmptyVec), rest |-> q]
  ELSE [some |-> TRUE, v |-> Head(q), rest |-> Tail(q)]

\* mem::take read the wrong way round: the vector left behind is used.
mem_take_left_behind(v) == [taken |-> EmptyVec, left |-> v]

\* std::mem::take: returns the value and leaves the default (empty) one.
mem_take(v) == [taken |-> v, left |-> EmptyVec]

\* What a ReaderFuture answers when polled: Pending, Ok(reader) or Err(e).
FutureAnswers == {"pending", "ok", "err"}

\* What the sub-stream of file f answers when polled after k items, other
\* than Pending and None: Some(Ok(batch)) or Some(Err(e)).
ReaderItems(m, f, k) ==
  IF Len(m.yielded) < MaxBatches
  THEN { Ok(RecordBatch(f, k + 1, n, g)) : n \in 0..MaxRows, g \in BOOLEAN }
       \cup { Err("decode", f) }
  ELSE {}

\* The governor forgetting to decrement the budget for a batch that fits.
limit_governor_no_decrement(rem, batch) ==
  IF rem.some
  THEN IF rem.v > num_rows(batch)
       THEN [remain |-> rem, batch |-> batch, limit |-> FALSE]
       ELSE [remain |-> Some(0), batch |-> slice(batch, 0, rem.v), limit |-> TRUE]
  ELSE [remain |-> rem, batch |-> batch, limit |-> FALSE]

\* The governor zeroing the budget before it slices with it.
limit_governor_zero_first(rem, batch) ==
  IF rem.some
  THEN IF rem.v > num_rows(batch)
       THEN [remain |-> Some(rem.v - num_rows(batch)), batch |-> batch, limit |-> FALSE]
       ELSE [remain |-> Some(0), batch |-> slice(batch, 0, 0), limit |-> TRUE]
  ELSE [remain |-> rem, batch |-> batch, limit |-> FALSE]

\* The governor comparing with >= : a batch that exactly uses up the budget
\* passes as one that fits.
limit_governor_ge(rem, batch) ==
  IF rem.some
  THEN IF rem.v >= num_rows(batch)
       THEN [remain |-> Some(rem.v - num_rows(batch)), batch |-> batch, limit |-> FALSE]
       ELSE [remain |-> Some(0), batch |-> slice(batch, 0, rem.v), limit |-> TRUE]
  ELSE [remain |-> rem, batch |-> batch, limit |-> FALSE]

\* The governor truncating without the move to Limit (line 188 missing).
limit_governor_no_limit_state(rem, batch) ==
  IF rem.some
  THEN IF rem.v > num_rows(batch)
       THEN [remain |-> Some(rem.v - num_rows(batch)), batch |-> batch, limit |-> FALSE]
       ELSE [remain |-> Some(0), batch |-> slice(batch, 0, rem.v), limit |-> FALSE]
  ELSE [remain |-> rem, batch |-> batch, limit |-> FALSE]

\* The closure of lines 181-194: the row-limit governor.
limit_governor(rem, batch) ==
  IF rem.some
  THEN IF rem.v > num_rows(batch)
       THEN [remain |-> Some(rem.v - num_rows(batch)), batch |-> batch, limit |-> FALSE]
       ELSE [remain |-> Some(0), batch |-> slice(batch, 0, rem.v), limit |-> TRUE]
  ELSE [remain |-> rem, batch |-> batch, limit |-> FALSE]

\* The Scan arm going back to Idle after each batch it returns.
ScanItem_back_to_idle(m, item) ==
  LET f == m.state.file
      m1 == [m EXCEPT !.yielded = Append(@, item), !.state = Idle]
      projected == IF item.kind = "err" THEN item
                   ELSE project(item.b, m.state.partition_values)
  IN IF projected.kind = "err"
     THEN Return([m1 EXCEPT !.state = Error], projected)
     ELSE LET g == limit_governor(m1.remain, projected.b)
          IN Return([m1 EXCEPT !.remain = g.remain,
                               !.state = IF g.limit THEN Limit ELSE @],
                    Ok(g.batch))

\* The Scan arm without lines 196-198: an error leaves the state as it is.
ScanItem_keep_scanning(m, item) ==
  LET f == m.state.file
      m1 == [m EXCEPT !.yielded = Append(@, item),
                      !.state = Scan(f, m.state.partition_values, m.state.pos + 1)]
      projected == IF item.kind = "err" THEN item
                   ELSE project(item.b, m.state.partition_values)
  IN IF projected.kind = "err"
     THEN Return(m1, projected)
     ELSE LET g == limit_governor(m1.remain, projected.b)
          IN Return([m1 EXCEPT !.remain = g.remain,
                               !.state = IF g.limit THEN Limit ELSE @],
                    Ok(g.batch))

\* The Scan arm applying the governor to the batch before projecting it.
ScanItem_govern_first(m, item) ==
  LET f == m.state.file
      m1 == [m EXCEPT !.yielded = Append(@, item),
                      !.state = Scan(f, m.state.partition_values, m.state.pos + 1)]
      g == limit_governor(m1.remain, item.b)
      m2 == IF item.kind = "err" THEN m1
            ELSE [m1 EXCEPT !.remain = g.remain,
                            !.state = IF g.limit THEN Limit ELSE @]
      projected == IF item.kind = "err" THEN item
                   ELSE project(g.batch, m.state.partition_values)
  IN IF projected.kind = "err"
     THEN Return([m2 EXCEPT !.state = Error], projected)
     ELSE Return(m2, projected)

\* Some(result) of the Scan arm: project, govern, and return the result.
ScanItem(m, item) ==
  LET f == m.state.file
      m1 == [m EXCEPT !.yielded = Append(@, item),
                      !.state = Scan(f, m.state.partition_values, m.state.pos + 1)]
      projected == IF item.kind = "err" THEN item
                   ELSE project(item.b, m.state.partition_values)
  IN IF projected.kind = "err"
     THEN Return([m1 EXCEPT !.state = Error], projected)
     ELSE LET g == limit_governor(m1.remain, projected.b)
          IN Return([m1 EXCEPT !.remain = g.remain,
                               !.state = IF g.limit THEN Limit ELSE @],
                    Ok(g.batch))

RECURSIVE poll_inner(_)

\* The Idle arm suspending on an empty queue instead of ending the stream.
IdleArm_pending_on_empty(m) ==
  LET p == pop_front(m.file_iter)
  IN IF ~p.some THEN {Return(m, PollPending)}
     ELSE poll_inner([m EXCEPT !.file_iter = p.rest,
                               !.opened = Append(@, p.v.object_meta),
                               !.st.opens = @ + 1,
                               !.state = Open(p.v.object_meta, p.v.partition_values)])

\* The Idle arm calling the opener twice for the file it pops, keeping the
\* second future.
IdleArm_open_twice(m) ==
  LET p == pop_front(m.file_iter)
  IN IF ~p.some THEN {Return(m, PollEnd)}
     ELSE poll_inner([m EXCEPT !.file_iter = p.rest,
                               !.opened = Append(Append(@, p.v.object_meta), p.v.object_meta),
                               !.st.opens = @ + 2,
                               !.state = Open(p.v.object_meta, p.v.partition_values)])

\* FileStreamState::Idle
IdleArm(m) ==
  LET p == pop_front(m.file_iter)
  IN IF ~p.some THEN {Return(m, PollEnd)}
     ELSE poll_inner([m EXCEPT !.file_iter = p.rest,
                               !.opened = Append(@, p.v.object_meta),
                               !.st.opens = @ + 1,
                               !.state = Open(p.v.object_meta, p.v.partition_values)])

\* The Open arm recovering from a failed open: it reports the error and
\* goes back to Idle, so that the next poll opens the next file.
OpenArm_skip_failed(m) ==
  LET m1 == [m EXCEPT !.st.futPolls = @ + 1]
      f == m.state.file
  IN UNION { CASE a = "pending" -> {Return(m1, PollPending)}
               [] a = "ok" ->
                    poll_inner([m1 EXCEPT !.state =
                       Scan(f, mem_take(m.state.partition_values).taken, 0)])
               [] a = "err" -> {Return([m1 EXCEPT !.state = Idle], Err("open", f))}
             : a \in FutureAnswers }

\* The Open arm taking the future out of the state to poll it and not
\* putting it back when it is not ready: the driver is left in Idle.
OpenArm_lose_future(m) ==
  LET m1 == [m EXCEPT !.st.futPolls = @ + 1]
      f == m.state.file
  IN UNION { CASE a = "pending" -> {Return([m1 EXCEPT !.state = Idle], PollPending)}
               [] a = "ok" ->
                    poll_inner([m1 EXCEPT !.state =
                       Scan(f, mem_take(m.state.partition_values).taken, 0)])
               [] a = "err" -> {Return([m1 EXCEPT !.state = Error], Err("open", f))}
             : a \in FutureAnswers }

\* FileStreamState::Open
OpenArm(m) ==
  LET m1 == [m EXCEPT !.st.futPolls = @ + 1]
      f == m.state.file
  IN UNION { CASE a = "pending" -> {Return(m1, PollPending)}
               [] a = "ok" ->
                    poll_inner([m1 EXCEPT !.state =
                       Scan(f, mem_take(m.state.partition_values).taken, 0)])
               [] a = "err" -> {Return([m1 EXCEPT !.state = Error], Err("open", f))}
             : a \in FutureAnswers }

\* The Scan arm returning to its caller when the sub-stream ends, instead
\* of looping on to the next file.
ScanArm_return_on_end(m) ==
  LET m1 == [m EXCEPT !.st.readerPolls = @ + 1]
      f == m.state.file
  IN {Return(m1, PollPending)}
     \cup { ScanItem(m1, item) : item \in ReaderItems(m1, f, m1.state.pos) }
     \cup {Return([m1 EXCEPT !.state = Idle, !.ended = @ \cup {f}], PollPending)}

\* FileStreamState::Scan
ScanArm(m) ==
  LET m1 == [m EXCEPT !.st.readerPolls = @ + 1]
      f == m.state.file
  IN {Return(m1, PollPending)}
     \cup { ScanItem(m1, item) : item \in ReaderItems(m1, f, m1.state.pos) }
     \cup poll_inner([m1 EXCEPT !.state = Idle, !.ended = @ \cup {f}])

\* The terminal arm reporting the end and resetting the driver to Idle.
TerminalArm_reset(m) == {Return([m EXCEPT !.state = Idle], PollEnd)}

\* FileStreamState::Error | FileStreamState::Limit
TerminalArm(m) == {Return(m, PollEnd)}

\* One call of poll_inner: the set of its possible outcomes, one for each
\* way the future and the sub-streams polled in it can answer.
poll_inner(m) ==
  UNION { CASE m1.state.tag = "Idle" -> IdleArm(m1)
            [] m1.state.tag = "Open" -> OpenArm(m1)
            [] m1.state.tag = "Scan" -> ScanArm(m1)
            [] OTHER -> TerminalArm(m1)
          : m1 \in {[m EXCEPT !.st.iters = @ + 1]} }

Init ==
  /\ files \in FileGroups
  /\ limit \in Limits
  /\ file_iter = files
  /\ remain = limit
  /\ state = Idle
  /\ out = <<>>
  /\ yielded = <<>>
  /\ opened = <<>>
  /\ ended = {}
  /\ last = NoPoll
  /\ endPolls = 0

\* Stream::poll_next: poll_inner, its result passed through
\* baseline_metrics.record_poll, which returns it as it is.
poll_next ==
  /\ endPolls < MaxEndPolls
  /\ \E o \in poll_inner(Self) :
       /\ file_iter' = o.m.file_iter
       /\ remain' = o.m.remain
       /\ state' = o.m.state
       /\ yielded' = o.m.yielded
       /\ opened' = o.m.opened
       /\ ended' = o.m.ended
       /\ last' = o.m.st
       /\ out' = IF o.ret.kind \in {"batch", "err"} THEN Append(out, o.ret) ELSE out
       /\ endPolls' = IF o.ret.kind = "end" THEN endPolls + 1 ELSE endPolls
  /\ UNCHANGED <<files, limit>>

Next == poll_next

Spec == Init /\ [][Next]_vars

(***************************************************************************)
(* What the claims speak of.                                               *)
(***************************************************************************)
IsBatch(x) == x.kind = "batch"
IsErr(x) == x.kind = "err"

\* The batches emitted so far, and the batches the sub-streams yielded.
OutBatches == SelectSeq(out, IsBatch)
HasErr(s) == \E i \in 1..Len(s) : IsErr(s[i])
ErrCount(s) == Cardinality({ i \in 1..Len(s) : IsErr(s[i]) })

RECURSIVE SumRows(_)
SumRows(s) == IF s = <<>> THEN 0 ELSE num_rows(Head(s).b) + SumRows(Tail(s))

\* The batches file f's sub-stream yielded, in sub-stream order.
RECURSIVE FileBatches(_, _)
FileBatches(s, f) ==
  IF s = <<>> THEN <<>>
  ELSE IF IsBatch(Head(s)) /\ Head(s).b.src[1] = f
       THEN <<Head(s)>> \o FileBatches(Tail(s), f)
       ELSE FileBatches(Tail(s), f)

\* Their concatenation in file-group order, files n, n+1, ..
RECURSIVE Concatenation(_)
Concatenation(n) ==
  IF n > Len(files) THEN <<>>
  ELSE FileBatches(yielded, files[n].object_meta) \o Concatenation(n + 1)

Min(a, b) == IF a < b THEN a ELSE b

\* C1: the batches emitted are, one for one and in order, the first batches
\* of the concatenation in file-group order of what each file's sub-stream
\* yielded: each emitted batch is the batch at the same place of the
\* concatenation, holding its rows from the first on, and every file before
\* the file of an emitted batch was opened and read to its end.
C1_OrderPreserved ==
  LET cat == Concatenation(1)
  IN /\ Len(OutBatches) <= Len(cat)
     /\ \A i \in 1..Len(OutBatches) :
          /\ OutBatches[i].b.src = cat[i].b.src
          /\ OutBatches[i].b.off = 0
          /\ OutBatches[i].b.len <= cat[i].b.len
          /\ \A f \in 1..(OutBatches[i].b.src[1] - 1) : f \in ended

\* Batches of the first and of the third file were emitted, the second
\* file having yielded none.
C1_Witness ==
  /\ Len(OutBatches) = 2
  /\ OutBatches[1].b.src = <<1, 1>>
  /\ OutBatches[2].b.src = <<3, 1>>
  /\ 2 \in ended

\* C2: with limit Some(L), the rows of the batches emitted so far sum to at
\* most L.
C2_LimitSound == limit.some => SumRows(OutBatches) <= limit.v

\* A second batch was cut to fit the limit.
C2_Witness ==
  /\ limit = Some(MaxLimit)
  /\ Len(OutBatches) = 2
  /\ SumRows(OutBatches) = MaxLimit
  /\ SumRows(Concatenation(1)) > MaxLimit

\* C3: with limit Some(L) and no error, when a poll returns end-of-sequence
\* the rows emitted sum to min(L, total rows of the sub-streams): L when the
\* sub-streams yielded L rows or more, and otherwise all the rows of all the
\* files, every one of them read to its end.
C3_LimitExact ==
  (limit.some /\ last.ret = "end" /\ ~HasErr(out) /\ ~HasErr(yielded)) =>
     LET total == SumRows(Concatenation(1))
     IN /\ SumRows(OutBatches) = Min(limit.v, total)
        /\ total < limit.v => \A f \in 1..Len(files) : f \in ended

\* One file yielding [2, 2] under limit 3: a batch of 2, a batch of 1, end.
C3_Witness ==
  /\ limit = Some(3)
  /\ Len(files) = 1
  /\ last.ret = "end"
  /\ Len(yielded) = 2 /\ yielded[1].b.len = 2 /\ yielded[2].b.len = 2
  /\ Len(out) = 2 /\ out[1].b.len = 2 /\ out[2].b.len = 1
  /\ state = Limit

\* C4: once an error element was returned or the driver is in Limit or
\* Error, a poll returns no batch and no error and leaves the driver state
\* as it is.
C4_Terminal ==
  [][ (state.tag \in {"Limit", "Error"} \/ HasErr(out)) =>
        (state' = state /\ out' = out /\ last'.ret = "end") ]_vars

\* A sub-stream's error was returned and the stream was polled again.
C4_Witness ==
  /\ state = Error
  /\ Len(out) = 2 /\ out[2].cause = "decode"
  /\ endPolls = MaxEndPolls

\* C5: a poll that follows a poll that returned end-of-sequence returns
\* end-of-sequence, calls the opener and polls futures and sub-streams zero
\* times, and leaves the file queue, the counter and the state unchanged.
C5_EndIsFinal ==
  [][ last.ret = "end" =>
        /\ last'.ret = "end"
        /\ last'.opens = 0 /\ last'.futPolls = 0 /\ last'.readerPolls = 0
        /\ opened' = opened /\ yielded' = yielded /\ ended' = ended
        /\ UNCHANGED <<file_iter, remain, state>> ]_vars

\* The queue ran out after two batches and the stream was polled again.
C5_Witness ==
  /\ state = Idle /\ file_iter = <<>> /\ Len(files) = 2
  /\ Len(OutBatches) = 2
  /\ last.ret = "end" /\ endPolls = MaxEndPolls

\* The batch a poll has just returned, the batch the sub-stream yielded for
\* it, and that batch with its partition columns, as the projector returns
\* it (C9 is about which values they hold).
Emitted == out'[Len(out')].b
Arrived == yielded'[Len(yielded')].b
Projected == [Arrived EXCEPT !.part = Emitted.part]
BatchReturned == last'.ret = "batch" /\ Len(out') = Len(out) + 1

\* C6 as stated, for batches that have rows: a batch of n > 0 rows arriving
\* with budget r >= n (r = n included) is emitted unchanged, r becomes r - n
\* and the driver stays in Scan.
C6_AsStated ==
  [][ (BatchReturned /\ remain.some /\ num_rows(Arrived) > 0
         /\ remain.v >= num_rows(Arrived)) =>
        /\ Emitted = Projected
        /\ remain' = Some(remain.v - num_rows(Arrived))
        /\ state'.tag = "Scan" ]_vars

\* C6 amended: a batch of n rows arriving with budget r > n is emitted
\* unchanged, r becomes r - n and the driver stays in Scan; with r <= n
\* (r = n included) it is emitted as slice(0, r), r becomes 0 and the driver
\* is in Limit when the poll returns: the batch whose rows reach the limit
\* puts the driver in Limit, also when the limit equals the total rows.
C6_Governor ==
  [][ (BatchReturned /\ remain.some) =>
        IF remain.v > num_rows(Arrived)
        THEN /\ Emitted = Projected
             /\ remain' = Some(remain.v - num_rows(Arrived))
             /\ state'.tag = "Scan"
        ELSE /\ Emitted = slice(Projected, 0, remain.v)
             /\ remain' = Some(0)
             /\ state' = Limit ]_vars

\* A batch of exactly the remaining budget arrived: all its rows were
\* emitted and the driver is in Limit; the limit equals the total rows.
C6_Witness ==
  /\ limit = Some(3)
  /\ Len(yielded) = 2 /\ yielded[1].b.len = 1 /\ yielded[2].b.len = 2
  /\ Len(out) = 2 /\ out[2].b.len = 2
  /\ remain = Some(0) /\ state = Limit

\* C7: at most one error element is ever returned, and once it was, a poll
\* calls the opener zero times, pops no file, polls no future and no
\* sub-stream and returns no element.
C7_NoRetry ==
  [][ /\ ErrCount(out') <= 1
      /\ HasErr(out) =>
           /\ opened' = opened /\ file_iter' = file_iter
           /\ last'.opens = 0 /\ last'.futPolls = 0 /\ last'.readerPolls = 0
           /\ yielded' = yielded /\ out' = out ]_vars

\* Files [F1, F2, F3]: F1 yielded a batch, F2's open failed, the stream was
\* polled again and F3 is still in the queue, never opened.
C7_Witness ==
  /\ Len(files) = 3
  /\ Len(out) = 2 /\ IsBatch(out[1]) /\ out[2] = Err("open", 2)
  /\ opened = <<1, 2>>
  /\ Len(file_iter) = 1 /\ file_iter[1].object_meta = 3
  /\ endPolls = MaxEndPolls

\* C8: every file the opener was called with before the last one had its
\* sub-stream report its end, and the future or sub-stream the driver holds
\* is that of the file opened last.
C8_NoPrefetch ==
  /\ \A i \in 1..(Len(opened) - 1) : opened[i] \in ended
  /\ state.tag \in {"Open", "Scan"} =>
       (opened # <<>> /\ state.file = opened[Len(opened)] /\ state.file \notin ended)

\* The third file is being scanned after the first two were read to their
\* end, one of them having yielded a batch.
C8_Witness ==
  /\ opened = <<1, 2, 3>>
  /\ ended = {1, 2}
  /\ state.tag = "Scan" /\ state.file = 3
  /\ Len(OutBatches) = 1

\* C9: every emitted batch carries the partition values of the file whose
\* sub-stream yielded it, and the vector the driver holds in Open and in
\* Scan is that of the file it is opening or scanning.
C9_PartitionValues ==
  /\ \A i \in 1..Len(OutBatches) :
       OutBatches[i].b.part = files[OutBatches[i].b.src[1]].partition_values
  /\ state.tag \in {"Open", "Scan"} =>
       state.partition_values = files[state.file].partition_values

\* Batches of two files with different partition values were emitted.
C9_Witness ==
  /\ Len(OutBatches) = 2
  /\ OutBatches[1].b.src[1] = 1 /\ OutBatches[1].b.part = <<"a">>
  /\ OutBatches[2].b.src[1] = 2 /\ OutBatches[2].b.part = <<"b">>

\* C10: with limit Some(0), the first batch a sub-stream yields (and the
\* projector accepts) is emitted with 0 rows, it is the only element of the
\* stream, and the driver is in Limit from the poll that returned it.
C10_LimitZero ==
  limit = Some(0) =>
    /\ (yielded # <<>> /\ IsBatch(yielded[1]) /\ yielded[1].b.good) => OutBatches # <<>>
    /\ OutBatches # <<>> =>
         /\ Len(out) = 1 /\ Len(yielded) = 1
         /\ out[1].b = slice(project(yielded[1].b, out[1].b.part).b, 0, 0)
         /\ num_rows(out[1].b) = 0
         /\ state = Limit /\ remain = Some(0)
         /\ last.ret \in {"batch", "end"}

\* Under limit 0 a batch of 2 rows arrived, went out with 0 rows, and the
\* next poll returned end-of-sequence.
C10_Witness ==
  /\ limit = Some(0)
  /\ Len(yielded) = 1 /\ yielded[1].b.len = 2
  /\ Len(out) = 1 /\ out[1].b.len = 0
  /\ state = Limit /\ last.ret = "end"

\* C11 as stated: a zero-row batch is emitted with zero rows, and for every
\* budget (None, Some(0), Some(r > 0)) the budget is unchanged and the
\* driver is in Scan when the poll returns.
C11_AsStated ==
  [][ (BatchReturned /\ num_rows(Arrived) = 0) =>
        /\ num_rows(Emitted) = 0
        /\ remain' = remain
        /\ state'.tag = "Scan" ]_vars

\* C11 amended: a zero-row batch is emitted as it is and the budget is
\* unchanged; the driver stays in Scan when the budget is None or Some(r > 0),
\* and is in Limit when the budget is Some(0).
C11_ZeroRowBatch ==
  [][ (BatchReturned /\ num_rows(Arrived) = 0) =>
        /\ Emitted = Projected
        /\ remain' = remain
        /\ IF remain = Some(0) THEN state' = Limit ELSE state'.tag = "Scan" ]_vars

\* Zero-row batches went out under a budget of 2, which is still 2, and the
\* driver is scanning.
C11_Witness ==
  /\ limit = Some(2) /\ remain = Some(2)
  /\ Len(out) = 2 /\ IsBatch(out[1]) /\ IsBatch(out[2])
  /\ num_rows(out[1].b) = 0 /\ num_rows(out[2].b) = 0
  /\ state.tag = "Scan"

\* C12: with an empty file group, whatever the limit, every poll returns
\* end-of-sequence, no element is emitted, the opener is not called and no
\* future or sub-stream is polled.
C12_EmptyGroup ==
  files = <<>> =>
    /\ out = <<>> /\ opened = <<>> /\ yielded = <<>>
    /\ state = Idle /\ remain = limit
    /\ last.ret \in {"init", "end"}
    /\ last.opens = 0 /\ last.futPolls = 0 /\ last.readerPolls = 0
    /\ (last.ret = "init" <=> endPolls = 0)

\* The empty file group under the largest limit, polled once.
C12_Witness ==
  /\ files = <<>> /\ limit = Some(MaxLimit)
  /\ last.ret = "end" /\ endPolls = 1

\* C13: once a batch was emitted under a limit, the counter is zero exactly
\* when the driver is in Limit; so the poll whose batch brings the counter to
\* zero leaves the driver in Limit.
C13_ZeroIffLimit ==
  (limit.some /\ OutBatches # <<>>) => (remain = Some(0) <=> state = Limit)

\* A single batch of exactly the limit's rows went out whole and brought the
\* counter to zero.
C13_Witness ==
  /\ limit = Some(2)
  /\ Len(yielded) = 1 /\ num_rows(yielded[1].b) = 2
  /\ Len(out) = 1 /\ num_rows(out[1].b) = 2
  /\ remain = Some(0) /\ state = Limit /\ last.ret = "batch"

\* C14: a poll that returns Pending leaves the driver in Open, having polled
\* a future in that poll, or in Scan, having polled a sub-stream in it, never
\* in Idle, Limit or Error; it emits nothing and leaves the counter as it is.
C14_Suspension ==
  [][ last'.ret = "pending" =>
        /\ state'.tag \in {"Open", "Scan"}
        /\ state'.tag = "Open" => last'.futPolls >= 1
        /\ state'.tag = "Scan" => last'.readerPolls >= 1
        /\ state'.file = opened'[Len(opened')]
        /\ out' = out /\ yielded' = yielded /\ remain' = remain ]_vars

\* After a batch under a limit, the sub-stream had no batch ready.
C14_Witness ==
  /\ last.ret = "pending" /\ state.tag = "Scan"
  /\ Len(out) = 1 /\ IsBatch(out[1])
  /\ limit = Some(MaxLimit) /\ remain = Some(MaxLimit - 1)

\* C15: the files the opener was called with are the first files of the file
\* group, in order and once each, and the queue holds the rest: opener calls
\* plus queue length equal the size of the file group.  A poll pops as many
\* files as it calls the opener.
C15_QueueFrontToBack ==
  /\ Len(opened) + Len(file_iter) = Len(files)
  /\ \A i \in 1..Len(opened) : opened[i] = files[i].object_meta
  /\ \A i \in 1..Len(file_iter) : file_iter[i] = files[Len(opened) + i]
  /\ last.ret # "init" => last.opens = last.qlen - Len(file_iter)

\* Two of three files were opened, the third is still queued.
C15_Witness ==
  /\ Len(files) = 3 /\ opened = <<1, 2>>
  /\ file_iter = <<files[3]>>
  /\ state.tag = "Open" /\ state.file = 2

\* C16: a poll that returns a sub-stream's error or a projector's failure
\* emits that one error and no batch, leaves the counter as it is, and leaves
\* the driver in Error, which holds no future and no sub-stream.
C16_DecodeError ==
  [][ (last'.ret = "err" /\ out'[Len(out')].cause \in {"decode", "project"}) =>
        /\ out' = Append(out, out'[Len(out')])
        /\ SelectSeq(out', IsBatch) = OutBatches
        /\ remain' = remain
        /\ state' = Error /\ state'.file = 0 ]_vars

\* The projector rejected a batch of 2 rows under a budget of 1: the budget
\* is still 1.
C16_Witness ==
  /\ limit = Some(1) /\ remain = Some(1)
  /\ Len(yielded) = 1 /\ IsBatch(yielded[1]) /\ num_rows(yielded[1].b) = 2
  /\ out = <<Err("project", 1)>>
  /\ state = Error

\* C17: when a sub-stream ends in a poll, having yielded nothing, no element
\* of the stream comes from its file, and in that same poll the next file is
\* popped and opened, or, the queue being empty, the poll returns
\* end-of-sequence with the driver in Idle.
C17_EmptyFileSkipped ==
  [][ \A f \in ended' \ ended :
        FileBatches(yielded', f) = <<>> =>
          /\ \A i \in 1..Len(out') : out'[i].b.src[1] # f
          /\ IF f = Len(files)
             THEN last'.ret = "end" /\ state' = Idle /\ out' = out
             ELSE /\ Len(opened') > f /\ opened'[f + 1] = f + 1
                  /\ Len(file_iter') = Len(files) - Len(opened') ]_vars

\* The first two files yielded nothing and the third was opened in the poll
\* that saw the first one end; its batch is the only element.
C17_Witness ==
  /\ Len(files) = 3 /\ ended = {1, 2}
  /\ yielded # <<>> /\ out = <<Ok([yielded[1].b EXCEPT !.part = files[3].partition_values])>>
  /\ out[1].b.src = <<3, 1>>
  /\ last.opens = 2 /\ last.ret = "batch"

\* The stream was cut: the driver is in Limit and the last batch emitted
\* holds fewer rows than the batch the sub-stream yielded for it.
Truncated ==
  /\ state = Limit /\ out # <<>> /\ yielded # <<>>
  /\ num_rows(out[Len(out)].b) < num_rows(yielded[Len(yielded)].b)

\* C18: a batch of n rows arriving with budget r < n is emitted as rows
\* [0, r) of the projected batch; once that happened a poll returns
\* end-of-sequence, emits nothing, polls no sub-stream and opens no file.
C18_Truncation ==
  [][ /\ (BatchReturned /\ remain.some /\ remain.v < num_rows(Arrived)) =>
           /\ Emitted = [Projected EXCEPT !.off = 0, !.len = remain.v]
           /\ Truncated'
      /\ Truncated =>
           /\ last'.ret = "end" /\ out' = out
           /\ yielded' = yielded /\ opened' = opened /\ file_iter' = file_iter
           /\ last'.readerPolls = 0 /\ last'.futPolls = 0 /\ last'.opens = 0 ]_vars

\* A batch of 2 rows met a budget of 1: its first row went out, the stream
\* was polled again, and the second file is still in the queue.
C18_Witness ==
  /\ limit = Some(1) /\ Truncated
  /\ Len(out) = 1 /\ out[1].b.off = 0 /\ out[1].b.len = 1
  /\ num_rows(yielded[1].b) = 2
  /\ opened = <<1>> /\ Len(file_iter) = 1
  /\ endPolls = 1

\* The consumer keeps polling and what it polls answers in the end: a poll
\* that does not return Pending is taken if it stays possible.  The
\* sub-streams yield finitely many items (MaxBatches).
Progress == poll_next /\ last'.ret # "pending"

FairSpec == Spec /\ WF_vars(Progress)

\* C19: under these assumptions a poll returns end-of-sequence in the end.
C19_Terminates == <>(last.ret = "end")

\* Three files were read to their end, two batches went out, and the poll
\* after the last sub-stream's end returned end-of-sequence.
C19_Witness ==
  /\ Len(files) = 3 /\ ended = {1, 2, 3}
  /\ Len(OutBatches) = 2 /\ Len(out) = 2
  /\ state = Idle /\ last.ret = "end" /\ endPolls = 1

\* C20: every poll returns one of a batch, an error, Pending and
\* end-of-sequence, after at most as many opener calls as the queue held
\* files when the poll began and at most three turns of the loop for each of
\* them and three more.
C20_PollBounded ==
  last.ret # "init" =>
    /\ last.ret \in {"batch", "err", "pending", "end"}
    /\ last.opens <= last.qlen
    /\ last.futPolls <= last.opens + 1
    /\ last.readerPolls <= last.opens + 1
    /\ last.iters >= 1
    /\ last.iters <= 3 * last.opens + 3

\* Three files resolved at once and yielded nothing, all in the first poll,
\* which returned end-of-sequence after ten turns of the loop.
C20_Witness ==
  /\ last.qlen = 3 /\ last.opens = 3 /\ last.iters = 10
  /\ last.ret = "end" /\ endPolls = 1 /\ out = <<>>

====
